---------------------------- MODULE Spec2Model ----------------------------
(***************************************************************************)
(* Model of src/main.py: a FastAPI facade over Firestore.                  *)
(*                                                                         *)
(*   - Python values are tagged pairs <<kind, payload>>; the kinds are     *)
(*     the runtime types to_jsonable dispatches on.                        *)
(*   - NormSpec drives the pure helpers (to_jsonable, doc_to_dict) over    *)
(*     values built to a bounded depth.                                    *)
(*   - Spec drives the process: module import (init_firebase, db) and the  *)
(*     two request handlers, stepwise, over two concurrent request slots.  *)
(***************************************************************************)
EXTENDS Integers, Sequences, FiniteSets, TLC

\* ------------------------------------------------------------------ bounds
MaxWall  == 5     \* wall-clock hours 0..MaxWall carried by timestamp inputs
MaxDepth == 2     \* nesting depth of the values handed to to_jsonable
MaxIdLen == 3     \* length of the campana_id query parameter

\* ------------------------------------------------------- Python value model
Kind(v)    == v[1]
Payload(v) == v[2]

PyNone     == <<"none", 0>>
PyBool(b)  == <<"bool", b>>
PyInt(n)   == <<"int", n>>
PyFloat(n) == <<"float", n>>
\* a str is a sequence of characters; isoformat() output is kept structured
\* as its wall-clock fields and its UTC offset, both of which it prints.
Txt(s)     == <<"str", <<"txt", s>>>>
Iso(w, o)  == <<"str", <<"iso", w, o>>>>
List(s)    == <<"list", s>>
Dict(f)    == <<"dict", f>>
\* google.cloud.firestore_v1._helpers.GeoPoint(latitude, longitude)
GeoPoint(lat, lon) == <<"geo", <<lat, lon>>>>
\* DatetimeWithNanoseconds / datetime.datetime: wall-clock hour and tzinfo
NanoTs(w, tz)   == <<"nanots", <<w, tz>>>>
Datetime(w, tz) == <<"datetime", <<w, tz>>>>
\* numpy scalars
NpInt(n)   == <<"npint", n>>
NpFloat(n) == <<"npfloat", n>>
NpBool(b)  == <<"npbool", b>>
\* a Firestore value kind to_jsonable has no branch for (bytes, reference)
Bytes(n)   == <<"bytes", n>>

Quote == "\""

\* ------------------------------------------------------------- time zones
LOCAL_TZ == "America/Santiago"
Naive    == "naive"
TzInfos  == {Naive, "UTC", "UTC-5", LOCAL_TZ}

\* America/Santiago around the end of daylight saving time: UTC-3 before the
\* instant 6 (hours, UTC), UTC-4 from it on.
OffsetOfInstant(u) == IF u < 6 THEN -3 ELSE -4

\* The offset ZoneInfo gives a wall-clock time (fold = 0: the repeated hour
\* is read as its first occurrence).
OffsetOfWall(w) == IF w - (-3) < 6 THEN -3 ELSE -4

UtcOffset(w, tz) ==
    CASE tz = LOCAL_TZ -> OffsetOfWall(w)
      [] tz = "UTC"    -> 0
      [] tz = "UTC-5"  -> -5

\* the instant (hours, UTC) an aware wall-clock time denotes
Instant(w, tz) == w - UtcOffset(w, tz)

\* datetime.replace(tzinfo=tz): wall-clock fields kept
Replace(ts, tz) == <<ts[1], tz>>

\* datetime.astimezone(tz) on an aware value, tz = LOCAL_TZ: the same
\* object when it is already in that zone, else the same instant there.
AsLocal(ts) ==
    IF ts[2] = LOCAL_TZ THEN ts
    ELSE LET u == Instant(ts[1], ts[2])
         IN  <<u + OffsetOfInstant(u), LOCAL_TZ>>

\* datetime.isoformat() of an aware value
IsoFormat(ts) == Iso(ts[1], UtcOffset(ts[1], ts[2]))

\* ------------------------------------------------------------ to_jsonable
NanoTsToJson(v) == IsoFormat(Replace(Payload(v), LOCAL_TZ))

DatetimeToJson(v) ==
    LET ts == IF Payload(v)[2] = Naive THEN Replace(Payload(v), LOCAL_TZ)
              ELSE Payload(v)
    IN  IsoFormat(AsLocal(ts))

\* v.latitude and v.longitude are emitted as they are: the plain floats the
\* store's decoder puts in a GeoPoint
GeoToJson(v) ==
    Dict([k \in {"latitude", "longitude"} |->
            IF k = "latitude" THEN PyFloat(Payload(v)[1]) ELSE PyFloat(Payload(v)[2])])

\* a fall-through that re-encodes text instead of returning it
PassThroughEncoded(v) ==
    IF Kind(v) = "str" /\ Payload(v)[1] = "txt"
    THEN Txt(<<Quote>> \o Payload(v)[2] \o <<Quote>>)
    ELSE v

PassThrough(v) == v

RECURSIVE to_jsonable(_)
to_jsonable(v) ==
    IF Kind(v) = "nanots" THEN NanoTsToJson(v)
    ELSE IF Kind(v) = "datetime" THEN DatetimeToJson(v)
    ELSE IF Kind(v) = "geo" THEN GeoToJson(v)
    ELSE IF Kind(v) = "list"
         THEN List([i \in 1..Len(Payload(v)) |-> to_jsonable(Payload(v)[i])])
    ELSE IF Kind(v) = "dict"
         THEN Dict([k \in DOMAIN Payload(v) |-> to_jsonable(Payload(v)[k])])
    ELSE IF Kind(v) = "npint" THEN PyInt(Payload(v))
    ELSE IF Kind(v) = "npfloat" THEN PyFloat(Payload(v))
    ELSE IF Kind(v) = "npbool" THEN PyBool(Payload(v))
    ELSE PassThrough(v)

\* whether a value is made of JSON types only (str, number, bool, null,
\* list, mapping), which is what json.dumps accepts
RECURSIVE JsonOnly(_)
JsonOnly(v) ==
    IF Kind(v) \in {"none", "bool", "int", "float", "str"} THEN TRUE
    ELSE IF Kind(v) = "list"
         THEN \A i \in 1..Len(Payload(v)) : JsonOnly(Payload(v)[i])
    ELSE IF Kind(v) = "dict"
         THEN \A k \in DOMAIN Payload(v) : JsonOnly(Payload(v)[k])
    ELSE FALSE

\* ------------------------------------------------------------ doc_to_dict
\* A DocumentSnapshot: doc.id (a str) and what doc.to_dict() returns
\* (a dict, or None for a snapshot without data).
Snapshot(id, data) == [id |-> id, data |-> data]

\* doc.to_dict() or {}
ToDictOrEmpty(doc) == IF Kind(doc.data) = "dict" THEN Payload(doc.data) ELSE <<>>

SetDefault(d, k, x) ==
    [j \in DOMAIN d \cup {k} |-> IF j \in DOMAIN d THEN d[j] ELSE x]

\* d[k] = x
SetItem(d, k, x) ==
    [j \in DOMAIN d \cup {k} |-> IF j = k THEN x ELSE d[j]]

doc_to_dict(doc) ==
    LET raw  == ToDictOrEmpty(doc)
        data == [k \in DOMAIN raw |-> to_jsonable(raw[k])]
    IN  Dict(SetItem(data, "id", Txt(doc.id)))

\* --------------------------------------------------------- str.strip('"')
RECURSIVE LStrip(_)
LStrip(s) == IF s # <<>> /\ Head(s) = Quote THEN LStrip(Tail(s)) ELSE s

RECURSIVE RStrip(_)
RStrip(s) ==
    IF s # <<>> /\ s[Len(s)] = Quote THEN RStrip(SubSeq(s, 1, Len(s) - 1)) ELSE s

LStripOnly(s) == LStrip(s)

Strip(s) == RStrip(LStrip(s))

\* ------------------------------------------------------------ COLLECTIONS
CollectionsTable ==
    [campana  |-> [name |-> "campana",  filter_field |-> "campanaID"],
     estacion |-> [name |-> "Estacion", filter_field |-> "campanaID"]]

DataKeys == {"campana", "estacion"}

\* --------------------------------------------------- the external store
\* What the Firestore project holds, per physical collection.
StoreDocs(coll) ==
    CASE coll = "campana" ->
           { Snapshot(<<"c1">>, Dict([campanaID |-> Txt(<<"a">>),
                                      nombre    |-> Txt(<<"Test">>),
                                      creado    |-> NanoTs(2, "UTC")])),
             Snapshot(<<"c2">>, Dict([campanaID |-> Txt(<<"a">>),
                                      id        |-> Txt(<<"own">>),
                                      punto     |-> GeoPoint(1, 2)])),
             Snapshot(<<"c3">>, Dict([campanaID |-> Txt(<<"a", Quote, "a">>),
                                      tags      |-> List(<<Txt(<<"x">>), PyInt(1)>>)])),
             Snapshot(<<"c4">>, Dict([campanaID |-> Txt(<<>>),
                                      blob      |-> Bytes(0)])),
             Snapshot(<<"c5">>, Dict([nombre    |-> Txt(<<"a">>)])) }
      [] coll = "Estacion" ->
           { Snapshot(<<"e1">>, Dict([campanaID |-> Txt(<<"a">>),
                                      nombre    |-> Txt(<<"E1">>)])),
             Snapshot(<<"e2">>, Dict([campanaID |-> Txt(<<"a">>),
                                      creado    |-> NanoTs(4, "UTC")])),
             Snapshot(<<"e3">>, Dict([campanaID |-> Txt(<<"a", "a">>)])) }
      [] OTHER -> {}

\* db.collection(name).where(field, "==", value): the query object
Query(name, field, value) == [collection |-> name, field |-> field, value |-> value]

NoQuery == Query("", "", PyNone)

\* the documents an equality-filtered scan matches
Matching(q) ==
    { d \in StoreDocs(q.collection) :
        /\ q.field \in DOMAIN Payload(d.data)
        /\ Payload(d.data)[q.field] = q.value }

\* the orders in which the store may yield a set of documents
Orders(S) ==
    { s \in [1..Cardinality(S) -> S] :
        \A i, j \in 1..Cardinality(S) : s[i] = s[j] => i = j }

\* ------------------------------------------------------------------ state
VARIABLES
    env,          \* FIREBASE_KEY_B64: "missing", "blank", "invalid", "valid"
    apps,         \* number of entries of firebase_admin._apps
    initCount,    \* calls of firebase_admin.initialize_app so far
    clientCount,  \* store handles created so far
    db,           \* the module-level store handle: "unset" or "client"
    proc,         \* "importing", "initialized", "serving", "crashed"
    lastInit,     \* what the last call of init_firebase did
    COLLECTIONS,  \* the module-level configuration table
    req,          \* the requests in flight, per slot
    nv,           \* NormSpec: the value handed to to_jsonable / doc_to_dict
    depth,        \* NormSpec: nesting depth of nv
    nout,         \* NormSpec: to_jsonable(nv)
    nout2,        \* NormSpec: to_jsonable(nout)
    ndoc,         \* NormSpec: the snapshot handed to doc_to_dict
    ndocOut,      \* NormSpec: doc_to_dict(ndoc)
    npc           \* NormSpec: "build", "normalized", "renormalized", "doc"

procVars == <<env, apps, initCount, clientCount, db, proc, lastInit, COLLECTIONS>>
normVars == <<nv, depth, nout, nout2, ndoc, ndocOut, npc>>
vars     == <<procVars, req, normVars>>

Slots == {"r1", "r2"}

Chars == {Quote, "a"}

\* the strings a caller may pass as campana_id
Ids == UNION { [1..n -> Chars] : n \in 0..MaxIdLen }

IdleReq ==
    [pc |-> "idle", endpoint |-> "", has_id |-> FALSE, campana_id |-> <<>>,
     query |-> NoQuery, nq |-> 0, scan |-> <<>>, items |-> <<>>,
     failed |-> FALSE, status |-> 0, body |-> PyNone]

NoInit == [called |-> FALSE, apps_before |-> 0, read_env |-> FALSE,
           initialized |-> FALSE, raised |-> FALSE]

Unset == <<"unset", 0>>

NoDoc == Snapshot(<<>>, PyNone)

ProcInit ==
    /\ env \in {"missing", "blank", "invalid", "valid"}
    /\ apps = 0
    /\ initCount = 0
    /\ clientCount = 0
    /\ db = "unset"
    /\ proc = "importing"
    /\ lastInit = NoInit
    /\ COLLECTIONS = CollectionsTable
    /\ req = [r \in Slots |-> IdleReq]

NormIdle ==
    /\ nv = PyNone
    /\ depth = 0
    /\ nout = Unset
    /\ nout2 = Unset
    /\ ndoc = NoDoc
    /\ ndocOut = Unset
    /\ npc = "build"

Init == ProcInit /\ NormIdle

\* ----------------------------------------------------------- module import
InitFirebaseNoGuard ==
    /\ proc \in {"importing", "serving"}
    /\ env = "valid"
    /\ apps' = 1
    /\ initCount' = initCount + 1
    /\ lastInit' = [called |-> TRUE, apps_before |-> apps, read_env |-> TRUE,
                    initialized |-> TRUE, raised |-> FALSE]
    /\ proc' = IF proc = "importing" THEN "initialized" ELSE proc
    /\ UNCHANGED <<env, clientCount, db, COLLECTIONS, req, normVars>>

\* init_firebase(): called by the import (line 42); a later call finds the
\* app and returns.
InitFirebase ==
    /\ proc \in {"importing", "serving"}
    /\ IF apps # 0
       THEN /\ lastInit' = [called |-> TRUE, apps_before |-> apps,
                            read_env |-> FALSE, initialized |-> FALSE,
                            raised |-> FALSE]
            /\ proc' = IF proc = "importing" THEN "initialized" ELSE proc
            /\ UNCHANGED <<apps, initCount>>
       ELSE IF env \in {"missing", "blank"}
       THEN \* b64 is empty after strip(): RuntimeError
            /\ lastInit' = [called |-> TRUE, apps_before |-> apps,
                            read_env |-> TRUE, initialized |-> FALSE,
                            raised |-> TRUE]
            /\ proc' = "crashed"
            /\ UNCHANGED <<apps, initCount>>
       ELSE IF env = "invalid"
       THEN \* b64decode / json.loads / credentials.Certificate raises
            /\ lastInit' = [called |-> TRUE, apps_before |-> apps,
                            read_env |-> TRUE, initialized |-> FALSE,
                            raised |-> TRUE]
            /\ proc' = "crashed"
            /\ UNCHANGED <<apps, initCount>>
       ELSE /\ apps' = apps + 1
            /\ initCount' = initCount + 1
            /\ lastInit' = [called |-> TRUE, apps_before |-> apps,
                            read_env |-> TRUE, initialized |-> TRUE,
                            raised |-> FALSE]
            /\ proc' = IF proc = "importing" THEN "initialized" ELSE proc
    /\ UNCHANGED <<env, clientCount, db, COLLECTIONS, req, normVars>>

\* db = firestore.client(); the rest of the import defines the app
CreateClient ==
    /\ proc = "initialized"
    /\ db' = "client"
    /\ clientCount' = clientCount + 1
    /\ proc' = "serving"
    /\ UNCHANGED <<env, apps, initCount, lastInit, COLLECTIONS, req, normVars>>

\* ------------------------------------------------------------- handlers
reqUnchanged == UNCHANGED <<procVars, normVars>>

\* GET /health
health(r) ==
    /\ proc = "serving"
    /\ req[r].pc = "idle"
    /\ req' = [req EXCEPT ![r] =
                 [IdleReq EXCEPT !.pc = "done", !.endpoint = "health",
                                 !.status = 200,
                                 !.body = Dict([ok |-> PyBool(TRUE)])]]
    /\ reqUnchanged

\* GET /campana or GET /estacion arrives, with or without ?campana_id=
Receive(r, key, has_id, id) ==
    /\ proc = "serving"
    /\ req[r].pc = "idle"
    /\ req' = [req EXCEPT ![r] =
                 [IdleReq EXCEPT !.pc = "received", !.endpoint = key,
                                 !.has_id = has_id, !.campana_id = id]]
    /\ reqUnchanged

ParamOptional(q) == FALSE

\* campana_id: str = Query(...): the parameter is required
ParamMissing(q) == ~q.has_id

\* the framework answers 422 and the handler's body does not run
RejectMissing(r) ==
    /\ req[r].pc = "received"
    /\ ParamMissing(req[r])
    /\ req' = [req EXCEPT ![r].pc = "done", ![r].status = 422]
    /\ reqUnchanged

\* fetch_collection, up to the call of stream(): the query is built from the
\* key's configuration and the stripped campana_id, and the store fixes the
\* order in which it will yield the matching documents.
StartFetch(r) ==
    /\ req[r].pc = "received"
    /\ ~ParamMissing(req[r])
    /\ LET cfg == COLLECTIONS[req[r].endpoint]
           q   == Query(cfg.name, cfg.filter_field, Txt(Strip(req[r].campana_id)))
       IN  \E scan \in Orders(Matching(q)) :
             req' = [req EXCEPT ![r].pc = "streaming", ![r].query = q,
                                ![r].nq = req[r].nq + 1, ![r].scan = scan]
    /\ reqUnchanged

CollectReversed(items, d) == <<doc_to_dict(d)>> \o items

\* one turn of [doc_to_dict(d) for d in col_ref.stream()]
Collect(items, d) == Append(items, doc_to_dict(d))

StreamNext(r) ==
    /\ req[r].pc = "streaming"
    /\ Len(req[r].items) < Len(req[r].scan)
    /\ req' = [req EXCEPT ![r].items =
                 Collect(req[r].items, req[r].scan[Len(req[r].items) + 1])]
    /\ reqUnchanged

\* the stream is exhausted: fetch_collection returns the list
StreamEnd(r) ==
    /\ req[r].pc = "streaming"
    /\ Len(req[r].items) = Len(req[r].scan)
    /\ req' = [req EXCEPT ![r].pc = "fetched"]
    /\ reqUnchanged

StreamFailSwallowed(r) ==
    /\ req[r].pc = "streaming"
    /\ req' = [req EXCEPT ![r].pc = "fetched", ![r].failed = TRUE]
    /\ reqUnchanged

\* The store call raises, on the first read or a later one.  Nothing in
\* fetch_collection or the handler catches it: the framework answers 500.
StreamFail(r) ==
    /\ req[r].pc = "streaming"
    /\ req' = [req EXCEPT ![r].pc = "done", ![r].failed = TRUE,
                          ![r].status = 500]
    /\ reqUnchanged

IsNone(items) == FALSE

\* not items
NotItems(items) == Len(items) = 0

\* the handler after fetch_collection returned
Respond(r) ==
    /\ req[r].pc = "fetched"
    /\ \/ /\ NotItems(req[r].items)
          /\ req' = [req EXCEPT ![r].pc = "done", ![r].status = 404]
       \/ /\ ~NotItems(req[r].items)
          /\ JsonOnly(List(req[r].items))
          /\ req' = [req EXCEPT ![r].pc = "done", ![r].status = 200,
                                ![r].body = List(req[r].items)]
       \/ \* JSONResponse(items) cannot render the content: TypeError
          /\ ~NotItems(req[r].items)
          /\ ~JsonOnly(List(req[r].items))
          /\ req' = [req EXCEPT ![r].pc = "done", ![r].status = 500]
    /\ reqUnchanged

\* the response is sent; the slot takes the next request
Complete(r) ==
    /\ req[r].pc = "done"
    /\ req' = [req EXCEPT ![r] = IdleReq]
    /\ reqUnchanged

Next ==
    \/ InitFirebase
    \/ CreateClient
    \/ \E r \in Slots : health(r)
    \/ \E r \in Slots, key \in DataKeys, id \in Ids : Receive(r, key, TRUE, id)
    \/ \E r \in Slots, key \in DataKeys : Receive(r, key, FALSE, <<>>)
    \/ \E r \in Slots : RejectMissing(r)
    \/ \E r \in Slots : StartFetch(r)
    \/ \E r \in Slots : StreamNext(r)
    \/ \E r \in Slots : StreamEnd(r)
    \/ \E r \in Slots : StreamFail(r)
    \/ \E r \in Slots : Respond(r)
    \/ \E r \in Slots : Complete(r)

Spec == Init /\ [][Next]_vars

\* ------------------------------------------- the helpers on bounded values
Timestamps ==
    { NanoTs(w, tz)   : w \in 0..MaxWall, tz \in TzInfos } \cup
    { Datetime(w, tz) : w \in 0..MaxWall, tz \in TzInfos }

Leaves ==
    Timestamps \cup
    { PyNone, PyBool(TRUE), PyInt(1), PyFloat(2), Txt(<<"a">>), Txt(<<>>),
      GeoPoint(1, 2), NpInt(1), NpFloat(2), NpBool(TRUE), Bytes(0),
      List(<<>>), Dict(<<>>) }

Siblings == { Txt(<<"a">>), NpInt(1) }

Fields == { "campanaID", "creado", "id" }

DocIds == { <<"d1">>, <<"own">> }

NormInit ==
    /\ ProcInit
    /\ env = "valid"
    /\ nv \in Leaves
    /\ depth = 0
    /\ nout = Unset
    /\ nout2 = Unset
    /\ ndoc = NoDoc
    /\ ndocOut = Unset
    /\ npc = "build"

normUnchanged == UNCHANGED <<procVars, req>>

\* the value is put in a list, alone or after a sibling
WrapList ==
    /\ npc = "build"
    /\ depth < MaxDepth
    /\ \/ nv' = List(<<nv>>)
       \/ \E s \in Siblings : nv' = List(<<s, nv>>)
    /\ depth' = depth + 1
    /\ UNCHANGED <<nout, nout2, ndoc, ndocOut, npc>>
    /\ normUnchanged

\* the value is put in a mapping, alone or beside a field "id"
WrapDict ==
    /\ npc = "build"
    /\ depth < MaxDepth
    /\ \/ \E k \in Fields : nv' = Dict(k :> nv)
       \/ \E k \in Fields \ {"id"}, s \in Siblings :
             nv' = Dict((k :> nv) @@ ("id" :> s))
    /\ depth' = depth + 1
    /\ UNCHANGED <<nout, nout2, ndoc, ndocOut, npc>>
    /\ normUnchanged

Normalize ==
    /\ npc = "build"
    /\ nout' = to_jsonable(nv)
    /\ npc' = "normalized"
    /\ UNCHANGED <<nv, depth, nout2, ndoc, ndocOut>>
    /\ normUnchanged

Renormalize ==
    /\ npc = "normalized"
    /\ nout2' = to_jsonable(nout)
    /\ npc' = "renormalized"
    /\ UNCHANGED <<nv, depth, nout, ndoc, ndocOut>>
    /\ normUnchanged

\* doc_to_dict on a snapshot whose to_dict() is the value built
ConvertDoc ==
    /\ npc = "build"
    /\ Kind(nv) \in {"dict", "none"}
    /\ \E id \in DocIds :
         /\ ndoc' = Snapshot(id, nv)
         /\ ndocOut' = doc_to_dict(Snapshot(id, nv))
    /\ npc' = "doc"
    /\ UNCHANGED <<nv, depth, nout, nout2>>
    /\ normUnchanged

NormNext ==
    \/ WrapList
    \/ WrapDict
    \/ Normalize
    \/ Renormalize
    \/ ConvertDoc

NormSpec == NormInit /\ [][NormNext]_vars

\* ================================================================ claims
\* fetch_collection has returned for the request (no 422, no store error)
Returned(q) == q.pc \in {"fetched", "done"} /\ q.nq = 1 /\ ~q.failed

\* C1: on both data endpoints, a scan that yields no document makes
\* fetch_collection return the empty list and the handler answer 404; a 200
\* is answered only for a list with at least one element, never with [].
C1_EmptyIs404 ==
    \A r \in Slots :
      LET q == req[r] IN
      q.endpoint \in DataKeys =>
        /\ (Returned(q) /\ Len(q.scan) = 0 => q.items = <<>>)
        /\ (Returned(q) /\ q.pc = "done" /\ q.items = <<>> => q.status = 404)
        /\ (q.status = 200 => Len(q.items) >= 1 /\ q.body # List(<<>>))
        /\ (q.status = 404 => Returned(q) /\ q.items = <<>>)

C1_Witness ==
    /\ req["r1"].endpoint = "campana" /\ req["r1"].pc = "done"
    /\ Returned(req["r1"]) /\ req["r1"].scan = <<>> /\ req["r1"].status = 404
    /\ req["r2"].endpoint = "estacion" /\ req["r2"].status = 200
    /\ Len(req["r2"].items) = 2

\* v is s without its leading and its trailing run of double quotes
StrippedFrom(v, s) ==
    \E i \in 1..(Len(s) + 1), j \in 0..Len(s) :
      /\ i <= j + 1
      /\ v = SubSeq(s, i, j)
      /\ \A k \in 1..(i - 1) : s[k] = Quote
      /\ \A k \in (j + 1)..Len(s) : s[k] = Quote
      /\ v # <<>> => v[1] # Quote /\ v[Len(v)] # Quote

\* s without one pair of enclosing double quotes, when it has one
StripOnePair(s) ==
    IF Len(s) >= 2 /\ s[1] = Quote /\ s[Len(s)] = Quote
    THEN SubSeq(s, 2, Len(s) - 1)
    ELSE s

\* C2 (as stated): the filter value is campana_id with exactly one pair of
\* enclosing double quotes removed if present, and nothing more.
C2_OnePairOnly ==
    \A r \in Slots :
      req[r].nq = 1 => req[r].query.value = Txt(StripOnePair(req[r].campana_id))

\* C2 (amended): the filter value is campana_id without every leading and
\* every trailing double quote, paired or not; what lies between is kept.
C2_StripsAllEnclosingQuotes ==
    \A r \in Slots :
      req[r].nq = 1 =>
        /\ Kind(req[r].query.value) = "str"
        /\ Payload(req[r].query.value)[1] = "txt"
        /\ StrippedFrom(Payload(req[r].query.value)[2], req[r].campana_id)

C2_Witness ==
    \E r \in Slots :
      /\ req[r].nq = 1
      /\ req[r].campana_id = <<Quote, Quote, "a">>
      /\ req[r].query.value = Txt(<<"a">>)

\* C3: to_jsonable on a DatetimeWithNanoseconds gives an ISO string with the
\* America/Santiago offset: the wall clock kept when the input is naive, the
\* same instant as the input when it carries a time zone.
C3_NanoTimestampConverted ==
    npc = "normalized" /\ Kind(nv) = "nanots" =>
      LET w  == Payload(nv)[1]
          tz == Payload(nv)[2]
      IN  IF tz = Naive
          THEN nout = Iso(w, OffsetOfWall(w))
          ELSE LET u == Instant(w, tz)
               IN  nout = Iso(u + OffsetOfInstant(u), OffsetOfInstant(u))

\* C4: for every input, every value reachable in to_jsonable's output is a
\* string, number, boolean, null, list or mapping.
C4_OutputIsJsonOnly ==
    npc \in {"normalized", "renormalized"} => JsonOnly(nout)

\* C5: to_jsonable(to_jsonable(x)) = to_jsonable(x) for nested x.
C5_Idempotent ==
    npc = "renormalized" => nout2 = nout

C5_Witness ==
    /\ npc = "renormalized"
    /\ nv = Dict("creado" :> List(<<Txt(<<"a">>), NanoTs(2, "UTC")>>))
    /\ nout # nv

\* C6: doc_to_dict gives the document's keys, each with to_jsonable of its
\* value, plus "id" holding the store's identifier, also for a document
\* without fields and for one with a field "id" of its own.
C6_DocToDict ==
    npc = "doc" =>
      LET raw == IF Kind(ndoc.data) = "dict" THEN Payload(ndoc.data) ELSE <<>>
          res == Payload(ndocOut)
      IN  /\ Kind(ndocOut) = "dict"
          /\ DOMAIN res = DOMAIN raw \cup {"id"}
          /\ res["id"] = Txt(ndoc.id)
          /\ \A k \in DOMAIN raw \ {"id"} : res[k] = to_jsonable(raw[k])

C6_Witness ==
    /\ npc = "doc"
    /\ ndoc.id = <<"d1">>
    /\ Kind(ndoc.data) = "dict"
    /\ "id" \in DOMAIN Payload(ndoc.data)
    /\ "creado" \in DOMAIN Payload(ndoc.data)
    /\ Kind(Payload(ndoc.data)["creado"]) = "datetime"
    /\ Payload(ndocOut)["id"] = Txt(<<"d1">>)

\* C7: fetch_collection returns one normalized document per document the
\* scan yields, in the scan's order, and the scan is issued on the key's
\* physical collection with campanaID == stripped campana_id.
C7_OnePerDocumentInOrder ==
    \A r \in Slots :
      LET q == req[r] IN
      /\ Returned(q) =>
           /\ Len(q.items) = Len(q.scan)
           /\ \A i \in 1..Len(q.scan) : q.items[i] = doc_to_dict(q.scan[i])
      /\ q.nq = 1 =>
           q.query = [collection |-> IF q.endpoint = "campana" THEN "campana"
                                     ELSE "Estacion",
                      field      |-> "campanaID",
                      value      |-> Txt(Strip(q.campana_id))]

C7_Witness ==
    \E r \in Slots :
      /\ Returned(req[r])
      /\ req[r].endpoint = "estacion"
      /\ Len(req[r].items) = 2
      /\ Payload(req[r].items[1])["id"] = Txt(<<"e2">>)
      /\ Payload(req[r].items[2])["id"] = Txt(<<"e1">>)

\* C8: a store failure, on the first read or part-way, propagates: the store
\* is queried once, and the request gets neither a 200 with the documents
\* read so far nor a 404.
C8_StoreFailurePropagates ==
    \A r \in Slots :
      req[r].failed =>
        /\ req[r].pc = "done"
        /\ req[r].status = 500
        /\ req[r].body = PyNone
        /\ req[r].nq = 1

C8_Witness ==
    \E r \in Slots :
      /\ req[r].failed
      /\ Len(req[r].scan) = 2
      /\ Len(req[r].items) = 1
      /\ req[r].status = 500

\* C9: a data request without campana_id is answered 422 and issues no
\* query; one with campana_id, the empty string included, is not answered
\* 422 and reaches fetch_collection.
C9_MissingParamIs422 ==
    \A r \in Slots :
      LET q == req[r] IN
      q.endpoint \in DataKeys /\ q.pc \notin {"idle", "received"} =>
        /\ ~q.has_id => q.status = 422 /\ q.nq = 0 /\ q.query = NoQuery
        /\ q.has_id => q.status # 422 /\ q.nq = 1

C9_Witness ==
    /\ ~req["r1"].has_id /\ req["r1"].endpoint = "estacion"
    /\ req["r1"].status = 422
    /\ req["r2"].has_id /\ req["r2"].campana_id = <<>>
    /\ req["r2"].nq = 1 /\ req["r2"].pc = "done"

\* C10: the app is initialized at most once; a call that finds an app reads
\* no credential and initializes nothing; with no app and FIREBASE_KEY_B64
\* missing or blank the call raises, the app stays uninitialized and no
\* request is served; handling requests never re-initializes the app,
\* replaces the handle or changes the collection table.
C10_InitializedOnce ==
    /\ initCount <= 1
    /\ clientCount <= 1
    /\ apps = initCount
    /\ lastInit.called /\ lastInit.apps_before # 0 =>
         ~lastInit.read_env /\ ~lastInit.initialized /\ ~lastInit.raised
    /\ lastInit.called /\ lastInit.apps_before = 0 /\ env \in {"missing", "blank"} =>
         lastInit.raised /\ apps = 0 /\ proc = "crashed"
    /\ proc # "serving" => \A r \in Slots : req[r] = IdleReq
    /\ (\E r \in Slots : req[r] # IdleReq) =>
         db = "client" /\ apps = 1 /\ initCount = 1 /\ clientCount = 1
    /\ COLLECTIONS = CollectionsTable

C10_Witness ==
    /\ proc = "serving"
    /\ lastInit.called /\ lastInit.apps_before = 1
    /\ initCount = 1
    /\ req["r1"].status = 200 /\ req["r2"].pc = "streaming"

=============================================================================
